---- MODULE Spec2Model ----
(***************************************************************************)
(* A model of toolkitcli's command handler (src/src/index.ts): the capture *)
(* of a screenshot, the generate-then-refine loop against the completion   *)
(* provider, the extraction and validation of the provider's reply, the    *)
(* normalisation of the final bundle and the writing of the clone.         *)
(*                                                                         *)
(* Text.  A provider text is a sequence of tokens, each a record           *)
(* [t, k, v]: a brace, a prose character, a white-space character or one   *)
(* member `"k": v` of a JSON object (its separators included).  A markup   *)
(* (the html, css and js strings) is a sequence of strings, each one       *)
(* character or one indivisible piece of text: the two conventional file   *)
(* names and the closing head and body tags in lower and in upper case, a  *)
(* word character "w", a space, a line break and the pieces of the         *)
(* injected elements.  The regular expressions of normalizeAssets are      *)
(* evaluated on these pieces with the word-boundary and letter-case rules  *)
(* of JavaScript.                                                          *)
(***************************************************************************)
EXTENDS Integers, Sequences, FiniteSets, TLC

\* Largest --refine value the runs are started with.
MaxRefine == 3
\* Longest provider text given to extractJson on its own.
MaxTextLen == 6
\* Longest markup given to normalizeAssets on its own.
MaxMarkupLen == 4

VARIABLES
  pc,            \* position of the command handler
  apiKey,        \* process.env.OPENAI_API_KEY ("" when unset)
  optAi,         \* options.ai (FALSE under --no-ai)
  optRefine,     \* Number(options.refine)
  numbersOk,     \* width, height, refine and timeout are all finite numbers
  waitUntil,     \* String(options.wait)
  url,           \* the <url> argument
  enableAi,      \* the handler's local enableAi
  refinePasses,  \* the handler's local refinePasses
  browser,       \* "none" | "open" | "closed"
  captureError,  \* an error thrown inside the try block, pending its finally
  assets,        \* the handler's local assets (JNull while null)
  pass,          \* the pass whose provider call is in flight
  inflight,      \* provider calls issued and not yet settled
  requests,      \* every request handed to the provider, in order
  outcomes,      \* how each pass ended, in order
  normalized,    \* every argument normalizeAssets was called with, in order
  cloneDir,      \* the three files of the clone directory
  bundlesWritten,\* calls of writeGeneratedClone and writeScaffold
  fnIn,          \* argument of the function exercised on its own
  fnOut,         \* its result
  fnPc           \* "idle" | "ready" | "done"

vars == <<pc, apiKey, optAi, optRefine, numbersOk, waitUntil, url, enableAi,
          refinePasses, browser, captureError, assets, pass, inflight,
          requests, outcomes, normalized, cloneDir, bundlesWritten,
          fnIn, fnOut, fnPc>>

runVars == <<pc, apiKey, optAi, optRefine, numbersOk, waitUntil, url, enableAi,
             refinePasses, browser, captureError, assets, pass, inflight,
             requests, outcomes, normalized, cloneDir, bundlesWritten>>

-----------------------------------------------------------------------------
(* Sequences and numbers *)

SetMin(S) == CHOOSE x \in S : \A y \in S : x <= y

SetMax(S) == CHOOSE x \in S : \A y \in S : y <= x

MathMax(a, b) == IF a >= b THEN a ELSE b

SeqsUpTo(S, n) == UNION { [1..m -> S] : m \in 0..n }

\* Array.prototype.join
RECURSIVE Join(_, _)
Join(chunks, sep) ==
  IF chunks = <<>> THEN <<>>
  ELSE IF Len(chunks) = 1 THEN chunks[1]
  ELSE chunks[1] \o sep \o Join(Tail(chunks), sep)

-----------------------------------------------------------------------------
(* JSON values *)

JStr(s) == [ty |-> "string", val |-> s]
JNum == [ty |-> "number", val |-> <<>>]
JBool == [ty |-> "boolean", val |-> <<>>]
JNull == [ty |-> "null", val |-> <<>>]
JList == [ty |-> "list", val |-> <<>>]
JMap(members) == [ty |-> "mapping", val |-> members]
Undefined == [ty |-> "undefined", val |-> <<>>]

\* JavaScript's typeof
TypeOf(v) ==
  CASE v.ty \in {"mapping", "list", "null"} -> "object"
    [] OTHER -> v.ty

\* JavaScript's !v (numbers and booleans of the model are truthy)
Falsy(v) == v.ty \in {"null", "undefined"} \/ (v.ty = "string" /\ v.val = <<>>)

\* v[k]: the value of member k of a mapping, undefined otherwise
Prop(v, k) ==
  IF v.ty = "mapping" /\ \E i \in 1..Len(v.val) : v.val[i].k = k
  THEN v.val[CHOOSE i \in 1..Len(v.val) : v.val[i].k = k].v
  ELSE Undefined

-----------------------------------------------------------------------------
(* Provider text *)

Tok(c) == [t |-> c, k |-> "", v |-> Undefined]
LB == Tok("{")
RB == Tok("}")
Prose == Tok("a")
Space == Tok(" ")
NL == Tok("\n")
Member(k, v) == [t |-> "member", k |-> k, v |-> v]

IsWhite(tok) == tok.t \in {" ", "\n"}

\* String.prototype.indexOf / lastIndexOf for a one-character needle
IndexOf(text, c) ==
  IF \E i \in 1..Len(text) : text[i].t = c
  THEN SetMin({i \in 1..Len(text) : text[i].t = c}) - 1
  ELSE -1

LastIndexOf(text, c) ==
  IF \E i \in 1..Len(text) : text[i].t = c
  THEN SetMax({i \in 1..Len(text) : text[i].t = c}) - 1
  ELSE -1

\* String.prototype.slice(from, to) for 0 <= from <= to
Slice(text, from, to) == SubSeq(text, from + 1, to)

\* String.prototype.trim
RECURSIVE TrimStart(_)
TrimStart(text) ==
  IF text # <<>> /\ IsWhite(Head(text)) THEN TrimStart(Tail(text)) ELSE text

RECURSIVE TrimEnd(_)
TrimEnd(text) ==
  IF text # <<>> /\ IsWhite(text[Len(text)])
  THEN TrimEnd(SubSeq(text, 1, Len(text) - 1))
  ELSE text

Trim(text) == TrimEnd(TrimStart(text))

NoJsonObject == "No JSON object found in model output."
NoModelOutput == "No model output returned."
InvalidOutput == "Invalid model output."
InvalidShape == "Model output must include html, css, and js strings."
JsonSyntaxError == "SyntaxError"
ProviderError == "ProviderError"

Thrown(msg) == [ok |-> FALSE, error |-> msg, value |-> <<>>]
Returned(x) == [ok |-> TRUE, error |-> "", value |-> x]

extractJsonSliceEndExclusive(text) ==
  LET firstBrace == IndexOf(text, "{")
      lastBrace == LastIndexOf(text, "}")
  IN IF firstBrace = -1 \/ lastBrace = -1 \/ lastBrace <= firstBrace
     THEN Thrown(NoJsonObject)
     ELSE Returned(Slice(text, firstBrace, lastBrace))

extractJson(text) ==
  LET firstBrace == IndexOf(text, "{")
      lastBrace == LastIndexOf(text, "}")
  IN IF firstBrace = -1 \/ lastBrace = -1 \/ lastBrace <= firstBrace
     THEN Thrown(NoJsonObject)
     ELSE Returned(Slice(text, firstBrace, lastBrace + 1))

\* The members of an object in the order JSON.parse keeps them: a repeated
\* key keeps its first place and takes its last value.
RECURSIVE ObjectMembers(_, _)
ObjectMembers(toks, acc) ==
  IF toks = <<>> THEN acc
  ELSE LET m == Head(toks)
           at == {i \in 1..Len(acc) : acc[i].k = m.k}
       IN IF m.t # "member" THEN ObjectMembers(Tail(toks), acc)
          ELSE IF at = {}
          THEN ObjectMembers(Tail(toks), Append(acc, [k |-> m.k, v |-> m.v]))
          ELSE ObjectMembers(Tail(toks),
                 [acc EXCEPT ![CHOOSE i \in at : TRUE] = [k |-> m.k, v |-> m.v]])

\* JSON.parse of a text that extractJson returned: it starts with "{" and ends
\* with "}", so it is one object or a syntax error.
JsonParse(jsonText) ==
  LET inner == SubSeq(jsonText, 2, Len(jsonText) - 1)
  IN IF \A i \in 1..Len(inner) : inner[i].t = "member" \/ IsWhite(inner[i])
     THEN Returned(JMap(ObjectMembers(inner, <<>>)))
     ELSE Thrown(JsonSyntaxError)

\* JSON.stringify of a parsed object
RECURSIVE MemberTokens(_)
MemberTokens(members) ==
  IF members = <<>> THEN <<>>
  ELSE <<Member(Head(members).k, Head(members).v)>> \o MemberTokens(Tail(members))

JsonStringify(v) == <<LB>> \o MemberTokens(v.val) \o <<RB>>

validateAssetsSkipsJs(a) ==
  IF Falsy(a) \/ TypeOf(a) # "object" THEN Thrown(InvalidOutput)
  ELSE IF TypeOf(Prop(a, "html")) # "string" \/ TypeOf(Prop(a, "css")) # "string"
  THEN Thrown(InvalidShape)
  ELSE Returned(a)

validateAssets(a) ==
  IF Falsy(a) \/ TypeOf(a) # "object" THEN Thrown(InvalidOutput)
  ELSE IF TypeOf(Prop(a, "html")) # "string"
          \/ TypeOf(Prop(a, "css")) # "string"
          \/ TypeOf(Prop(a, "js")) # "string"
  THEN Thrown(InvalidShape)
  ELSE Returned(a)

\* extractOutputText: the texts of the output_text contents of the message
\* items, joined by line breaks and trimmed.
RECURSIVE ContentTexts(_)
ContentTexts(content) ==
  IF content = <<>> THEN <<>>
  ELSE (IF Head(content).type = "output_text" THEN <<Head(content).text>> ELSE <<>>)
       \o ContentTexts(Tail(content))

RECURSIVE ItemChunks(_)
ItemChunks(items) ==
  IF items = <<>> THEN <<>>
  ELSE (IF Head(items).type = "message" THEN ContentTexts(Head(items).content)
        ELSE <<>>)
       \o ItemChunks(Tail(items))

extractOutputText(response) == Trim(Join(ItemChunks(response.output), <<NL>>))

\* The tail of generateCloneAssets and of refineCloneAssets: from the
\* provider's response to the validated bundle.
AssetsFromResponse(response) ==
  LET outputText == IF response.output_text # <<>> THEN response.output_text
                    ELSE extractOutputText(response)
      extracted == extractJson(outputText)
      parsed == JsonParse(extracted.value)
  IN IF outputText = <<>> THEN Thrown(NoModelOutput)
     ELSE IF ~extracted.ok THEN extracted
     ELSE IF ~parsed.ok THEN parsed
     ELSE validateAssets(parsed.value)

-----------------------------------------------------------------------------
(* Markup *)

StylesCss == "styles.css"
ScriptJs == "script.js"
HeadClose == "</head>"
BodyClose == "</body>"

\* '<link rel="stylesheet" href="styles.css" />' and
\* '<script src="script.js"></script>' in pieces
LinkSnippetWrongFile == <<"<link rel=\"stylesheet\" href=\"", "style.css", "\" />">>

LinkSnippet == <<"<link rel=\"stylesheet\" href=\"", StylesCss, "\" />">>

ScriptSnippet == <<"<script src=\"", ScriptJs, "\"></script>">>

\* The i flag: a piece in lower case
LowerCase(piece) ==
  CASE piece = "STYLES.CSS" -> StylesCss
    [] piece = "SCRIPT.JS" -> ScriptJs
    [] piece = "</HEAD>" -> HeadClose
    [] piece = "</BODY>" -> BodyClose
    [] OTHER -> piece

\* Pieces that begin and end with a word character (\w); every other piece
\* begins and ends with a character that is none.
IsWordPiece(piece) ==
  piece \in {"w", "u", "style.css", StylesCss, ScriptJs, "STYLES.CSS", "SCRIPT.JS"}

\* /\bNAME\b/.test(html), the case-sensitive reading
WordTestCaseSensitive(html, name) ==
  \E i \in 1..Len(html) :
    /\ html[i] = name
    /\ i = 1 \/ ~IsWordPiece(html[i - 1])
    /\ i = Len(html) \/ ~IsWordPiece(html[i + 1])

\* /\bNAME\b/i.test(html)
WordTest(html, name) ==
  \E i \in 1..Len(html) :
    /\ LowerCase(html[i]) = name
    /\ i = 1 \/ ~IsWordPiece(html[i - 1])
    /\ i = Len(html) \/ ~IsWordPiece(html[i + 1])

\* /TAG/i.test(html)
TagTest(html, tag) == \E i \in 1..Len(html) : LowerCase(html[i]) = tag

\* html.replace(/TAG/i, replacement): the first match only
ReplaceFirst(html, tag, replacement) ==
  LET at == SetMin({i \in 1..Len(html) : LowerCase(html[i]) = tag})
  IN SubSeq(html, 1, at - 1) \o replacement \o SubSeq(html, at + 1, Len(html))

injectIntoHead(html, snippet) ==
  IF TagTest(html, HeadClose)
  THEN ReplaceFirst(html, HeadClose, snippet \o <<"\n", HeadClose>>)
  ELSE snippet \o <<"\n">> \o html

injectBeforeBodyClose(html, snippet) ==
  IF TagTest(html, BodyClose)
  THEN ReplaceFirst(html, BodyClose, snippet \o <<"\n", BodyClose>>)
  ELSE html \o <<"\n">> \o snippet

\* A CloneAssets object literal { html, css, js }
CloneAssets(html, css, js) ==
  JMap(<<[k |-> "html", v |-> html], [k |-> "css", v |-> css], [k |-> "js", v |-> js]>>)

normalizeAssets(a) ==
  LET html0 == Prop(a, "html").val
      html1 == IF ~WordTest(html0, StylesCss)
               THEN injectIntoHead(html0, LinkSnippet) ELSE html0
      html2 == IF ~WordTest(html1, ScriptJs)
               THEN injectBeforeBodyClose(html1, ScriptSnippet) ELSE html1
  IN CloneAssets(JStr(html2), Prop(a, "css"), Prop(a, "js"))

\* String.prototype.replaceAll over the five characters escapeHtml rewrites
RECURSIVE escapeHtml(_)
escapeHtml(value) ==
  IF value = <<>> THEN <<>>
  ELSE <<CASE Head(value) = "&" -> "&amp;"
           [] Head(value) = "<" -> "&lt;"
           [] Head(value) = ">" -> "&gt;"
           [] Head(value) = "\"" -> "&quot;"
           [] Head(value) = "'" -> "&#39;"
           [] OTHER -> Head(value)>> \o escapeHtml(Tail(value))

NoFile == <<"(no file)">>
EmptyDir == [html |-> NoFile, css |-> NoFile, js |-> NoFile]

\* The three files writeScaffold writes: index.html, styles.css, script.js
writeScaffold(u) ==
  [html |-> <<"<!doctype html> ... <title>Clone of ">> \o escapeHtml(u)
            \o <<"</title>">> \o LinkSnippet
            \o <<HeadClose, "<body> ... </main>">> \o ScriptSnippet
            \o <<BodyClose, "</html>", "\n">>,
   css |-> <<":root { ... } .notes h1 { margin-top: 0; }", "\n">>,
   js |-> <<"// Placeholder for future autonomous reconstruction logic.", "\n",
            "console.log(\"Clone scaffold ready.\");", "\n">>]

\* The three files writeGeneratedClone writes
writeGeneratedClone(a) ==
  [html |-> Prop(a, "html").val, css |-> Prop(a, "css").val, js |-> Prop(a, "js").val]

-----------------------------------------------------------------------------
(* The provider *)

HtmlPlain == <<"<html>", "<head>", HeadClose, "<body>", BodyClose, "</html>">>
HtmlBare == <<"<p>", "w", "</p>">>
HtmlUpper == <<"<HEAD>", "</HEAD>", "<BODY>", "w", "STYLES.CSS", "</BODY>">>
HtmlLinked == <<"<head>">> \o LinkSnippet \o <<HeadClose, "<body>">>
              \o ScriptSnippet \o <<BodyClose>>

Css1 == JStr(<<"body{}">>)
Css2 == JStr(<<"body{margin:0}">>)
Js1 == JStr(<<>>)
Js2 == JStr(<<"console.log(1)">>)

Reply(text) == [error |-> FALSE, output_text |-> text, output |-> <<>>]

Message(texts) ==
  [type |-> "message",
   content |-> [i \in 1..Len(texts) |-> [type |-> "output_text", text |-> texts[i]]]]

\* What one provider call can end with: a rejection, or a response whose text
\* is a bundle with prose around it, no text at all, text without an object,
\* text that is no JSON, or an object of the wrong shape.
ProviderResponses ==
  { [error |-> TRUE, output_text |-> <<>>, output |-> <<>>],
    Reply(<<Prose, Space, LB, Member("html", JStr(HtmlPlain)), Member("css", Css1),
            Member("js", Js1), RB>>),
    Reply(<<LB, Member("html", JStr(HtmlBare)), Space, Member("css", Css2),
            Member("js", Js2), Member("note", JNum), RB, NL, Prose>>),
    Reply(<<LB, Member("js", Js2), Member("css", Css1), Member("html", JStr(HtmlLinked)),
            Member("css", Css2), RB>>),
    [error |-> FALSE, output_text |-> <<>>,
     output |-> << [type |-> "reasoning", content |-> <<>>],
                   Message(<< <<NL, LB, Member("html", JStr(HtmlUpper))>>,
                              <<Member("css", Css1), Member("js", Js1), RB, Space>> >>) >>],
    Reply(<<>>),
    [error |-> FALSE, output_text |-> <<>>, output |-> <<Message(<< <<Space>> >>)>>],
    Reply(<<Prose, Prose>>),
    Reply(<<RB, Prose, LB>>),
    Reply(<<LB, Prose, RB>>),
    Reply(<<LB, Member("html", JStr(HtmlBare)), Member("css", Css1), Member("js", Js1), RB,
            LB, RB>>),
    Reply(<<LB, Member("html", JStr(HtmlBare)), Member("css", Css1), RB>>),
    Reply(<<LB, Member("html", JStr(HtmlBare)), Member("css", JNum), Member("js", Js1), RB>>),
    Reply(<<LB, Member("html", JNull), Member("css", Css1), Member("js", Js1), RB>>) }

\* What a pass ends with: client.responses.create rejects, or the response is
\* turned into a bundle.
PassResult(response) ==
  IF response.error THEN Thrown(ProviderError) ELSE AssetsFromResponse(response)

\* The result of the pass for each response, computed once
PassResults == [response \in ProviderResponses |-> PassResult(response)]

\* The request of generateCloneAssets
GenerateRequest(u) ==
  [kind |-> "generate", url |-> u, pass |-> 0, total |-> 0, assetsJson |-> <<>>]

\* The request of refineCloneAssets: the pass, the total and
\* JSON.stringify(options.assets) are part of its prompt
RefineRequest(u, a, p, total) ==
  [kind |-> "refine", url |-> u, pass |-> p, total |-> total,
   assetsJson |-> JsonStringify(a)]

-----------------------------------------------------------------------------
(* The command handler *)

AllowedWaitUntil == {"load", "domcontentloaded", "networkidle"}

Urls == {<<"u">>, <<"u", "&", "<", "u">>}

\* const enableAi = Boolean(apiKey) && options.ai
EnableAiIgnoresOption(key, ai) == key # ""

EnableAi(key, ai) == key # "" /\ ai

\* the loop condition pass <= refinePasses
LoopContinuesExclusive(p, total) == p < total

LoopContinues(p, total) == p <= total

\* The catch block logs a warning and completes: the handler goes on to the
\* write (TRUE), it does not rethrow (FALSE).
CatchRethrows == FALSE

CatchCompletes == TRUE

Init ==
  /\ pc = "start"
  /\ apiKey \in {"", "sk"}
  /\ optAi \in BOOLEAN
  /\ optRefine \in -1..MaxRefine
  /\ numbersOk \in BOOLEAN
  /\ waitUntil \in {"networkidle", "idle"}
  /\ url \in Urls
  /\ enableAi = FALSE
  /\ refinePasses = 0
  /\ browser = "none"
  /\ captureError = FALSE
  /\ assets = JNull
  /\ pass = 0
  /\ inflight = 0
  /\ requests = <<>>
  /\ outcomes = <<>>
  /\ normalized = <<>>
  /\ cloneDir = EmptyDir
  /\ bundlesWritten = 0
  /\ fnIn = <<>>
  /\ fnOut = <<>>
  /\ fnPc = "idle"

\* Lines 28-54: the options are read and checked, chromium.launch() is called.
Start ==
  /\ pc = "start"
  /\ enableAi' = EnableAi(apiKey, optAi)
  /\ refinePasses' = MathMax(0, optRefine)
  /\ pc' = IF numbersOk THEN "launching" ELSE "failed"
  /\ UNCHANGED <<apiKey, optAi, optRefine, numbersOk, waitUntil, url, browser,
                 captureError, assets, pass, inflight, requests, outcomes,
                 normalized, cloneDir, bundlesWritten, fnIn, fnOut, fnPc>>

\* Line 54 settles: the browser is launched, or the launch is rejected.
LaunchSettles ==
  /\ pc = "launching"
  /\ \E ok \in BOOLEAN :
       /\ browser' = IF ok THEN "open" ELSE browser
       /\ pc' = IF ok THEN "newPage" ELSE "failed"
  /\ UNCHANGED <<apiKey, optAi, optRefine, numbersOk, waitUntil, url, enableAi,
                 refinePasses, captureError, assets, pass, inflight, requests,
                 outcomes, normalized, cloneDir, bundlesWritten, fnIn, fnOut, fnPc>>

\* Lines 55-63: browser.newPage settles, the wait event is checked, page.goto
\* is called.
NewPageSettles ==
  /\ pc = "newPage"
  /\ \E ok \in BOOLEAN :
       pc' = IF ok /\ waitUntil \in AllowedWaitUntil THEN "goto" ELSE "failed"
  /\ UNCHANGED <<apiKey, optAi, optRefine, numbersOk, waitUntil, url, enableAi,
                 refinePasses, browser, captureError, assets, pass, inflight,
                 requests, outcomes, normalized, cloneDir, bundlesWritten,
                 fnIn, fnOut, fnPc>>

\* Lines 63-66: page.goto settles; page.screenshot is called, or the finally
\* block calls browser.close() with the error pending.
GotoSettles ==
  /\ pc = "goto"
  /\ \E ok \in BOOLEAN :
       /\ captureError' = ~ok
       /\ pc' = IF ok THEN "screenshot" ELSE "closing"
  /\ UNCHANGED <<apiKey, optAi, optRefine, numbersOk, waitUntil, url, enableAi,
                 refinePasses, browser, assets, pass, inflight, requests,
                 outcomes, normalized, cloneDir, bundlesWritten, fnIn, fnOut, fnPc>>

\* Lines 64-66: page.screenshot settles and the finally block calls
\* browser.close().
ScreenshotSettles ==
  /\ pc = "screenshot"
  /\ \E ok \in BOOLEAN : captureError' = ~ok
  /\ pc' = "closing"
  /\ UNCHANGED <<apiKey, optAi, optRefine, numbersOk, waitUntil, url, enableAi,
                 refinePasses, browser, assets, pass, inflight, requests,
                 outcomes, normalized, cloneDir, bundlesWritten, fnIn, fnOut, fnPc>>

\* The bundles a pass can return, and normalizeAssets of each, computed once
ReturnedBundles ==
  {PassResults[response].value :
     response \in {r \in ProviderResponses : PassResults[r].ok}}

NormalizedBundles == [a \in ReturnedBundles |-> normalizeAssets(a)]

\* Lines 100-104: the bundle is normalised and written, or the scaffold is.
WrittenFilesStale(a) ==
  IF ~Falsy(a)
  THEN writeGeneratedClone(NormalizedBundles[IF Falsy(assets) THEN a ELSE assets])
  ELSE writeScaffold(url)

WrittenFiles(a) ==
  IF ~Falsy(a) THEN writeGeneratedClone(NormalizedBundles[a]) ELSE writeScaffold(url)

WriteClone(a) ==
  /\ normalized' = IF ~Falsy(a) THEN Append(normalized, a) ELSE normalized
  /\ cloneDir' = WrittenFiles(a)
  /\ bundlesWritten' = bundlesWritten + 1
  /\ pc' = "done"

\* Lines 66-108: browser.close() settles.  A pending error leaves the handler;
\* otherwise the clone directory is made and either generateCloneAssets calls
\* the provider or, without AI, the scaffold is written.
CloseSettles ==
  /\ pc = "closing"
  /\ browser' = "closed"
  /\ IF captureError
     THEN /\ pc' = "failed"
          /\ UNCHANGED <<inflight, requests, normalized, cloneDir, bundlesWritten>>
     ELSE IF enableAi
     THEN /\ requests' = Append(requests, GenerateRequest(url))
          /\ inflight' = inflight + 1
          /\ pc' = "provider"
          /\ UNCHANGED <<normalized, cloneDir, bundlesWritten>>
     ELSE /\ WriteClone(assets)
          /\ UNCHANGED <<inflight, requests>>
  /\ UNCHANGED <<apiKey, optAi, optRefine, numbersOk, waitUntil, url, enableAi,
                 refinePasses, captureError, assets, pass, outcomes,
                 fnIn, fnOut, fnPc>>

\* Lines 75-108: the provider call of the pass in flight settles.  A bundle is
\* assigned to assets and the next refinement pass calls the provider, or the
\* loop is over and the clone is written; an error of the pass is caught and
\* the clone is written from whatever assets holds.
ProviderSettles ==
  /\ pc = "provider"
  /\ \E response \in ProviderResponses :
       LET result == PassResults[response]
       IN /\ outcomes' = Append(outcomes, result)
          /\ IF result.ok /\ LoopContinues(pass + 1, refinePasses)
             THEN /\ assets' = result.value
                  /\ requests' = Append(requests,
                       RefineRequest(url, result.value, pass + 1, refinePasses))
                  /\ inflight' = inflight - 1 + 1
                  /\ pass' = pass + 1
                  /\ pc' = "provider"
                  /\ UNCHANGED <<normalized, cloneDir, bundlesWritten>>
             ELSE IF result.ok
             THEN /\ assets' = result.value
                  /\ inflight' = inflight - 1
                  /\ WriteClone(result.value)
                  /\ UNCHANGED <<requests, pass>>
             ELSE IF CatchCompletes
             THEN /\ inflight' = inflight - 1
                  /\ WriteClone(assets)
                  /\ UNCHANGED <<assets, requests, pass>>
             ELSE /\ inflight' = inflight - 1
                  /\ pc' = "failed"
                  /\ UNCHANGED <<assets, requests, pass, normalized, cloneDir,
                                 bundlesWritten>>
  /\ UNCHANGED <<apiKey, optAi, optRefine, numbersOk, waitUntil, url, enableAi,
                 refinePasses, browser, captureError, fnIn, fnOut, fnPc>>

Next ==
  \/ Start
  \/ LaunchSettles
  \/ NewPageSettles
  \/ GotoSettles
  \/ ScreenshotSettles
  \/ CloseSettles
  \/ ProviderSettles

Spec == Init /\ [][Next]_vars

\* Every call the handler awaits settles, and the handler then runs on.
FairSpec == Spec /\ WF_vars(Next)

-----------------------------------------------------------------------------
(* extractJson, normalizeAssets and the parse-and-validate step on their own: *)
(* each is applied to every input of a bounded set.                           *)

RunIdle ==
  /\ pc = "idle"
  /\ apiKey = ""
  /\ optAi = FALSE
  /\ optRefine = 0
  /\ numbersOk = TRUE
  /\ waitUntil = "networkidle"
  /\ url = <<"u">>
  /\ enableAi = FALSE
  /\ refinePasses = 0
  /\ browser = "none"
  /\ captureError = FALSE
  /\ assets = JNull
  /\ pass = 0
  /\ inflight = 0
  /\ requests = <<>>
  /\ outcomes = <<>>
  /\ normalized = <<>>
  /\ cloneDir = EmptyDir
  /\ bundlesWritten = 0

\* Provider texts of braces and prose
BraceTexts == SeqsUpTo({LB, RB, Prose}, MaxTextLen)

InitExtract ==
  /\ RunIdle
  /\ fnIn \in BraceTexts
  /\ fnOut = <<>>
  /\ fnPc = "ready"

ApplyExtractJson ==
  /\ fnPc = "ready"
  /\ fnOut' = extractJson(fnIn)
  /\ fnPc' = "done"
  /\ UNCHANGED <<runVars, fnIn>>

SpecExtract == InitExtract /\ [][ApplyExtractJson]_vars

\* Markups of the file names and closing tags in both letter cases, a word
\* character and a space
MarkupPieces ==
  {StylesCss, "STYLES.CSS", ScriptJs, "SCRIPT.JS", HeadClose, "</HEAD>",
   BodyClose, "</BODY>", "w", " "}

Markups == SeqsUpTo(MarkupPieces, MaxMarkupLen)

\* Validated bundles: an object literal, or a parsed object with its members
\* in another order and one more member
BundlesOf(html) ==
  { CloneAssets(JStr(html), Css1, Js1),
    CloneAssets(JStr(html), Css2, Js2),
    JMap(<<[k |-> "js", v |-> Js2], [k |-> "note", v |-> JNum],
           [k |-> "html", v |-> JStr(html)], [k |-> "css", v |-> Css1]>>) }

InitNormalize ==
  /\ RunIdle
  /\ \E html \in Markups : fnIn \in BundlesOf(html)
  /\ fnOut = <<>>
  /\ fnPc = "ready"

ApplyNormalize ==
  /\ fnPc = "ready"
  /\ fnOut' = <<normalizeAssets(fnIn)>>
  /\ fnPc' = "once"
  /\ UNCHANGED <<runVars, fnIn>>

ApplyNormalizeAgain ==
  /\ fnPc = "once"
  /\ fnOut' = Append(fnOut, normalizeAssets(fnOut[1]))
  /\ fnPc' = "twice"
  /\ UNCHANGED <<runVars, fnIn>>

NextNormalize == ApplyNormalize \/ ApplyNormalizeAgain

SpecNormalize == InitNormalize /\ [][NextNormalize]_vars

\* What a member of a payload can hold; Undefined stands for a missing member
FieldValues ==
  {Undefined, JStr(<<>>), JStr(<<"x">>), JNum, JNull, JBool, JList, JMap(<<>>)}

RequiredFields == <<"html", "css", "js">>

\* The JSON text of a payload with the given members
RECURSIVE PayloadMembers(_, _)
PayloadMembers(payload, keys) ==
  IF keys = <<>> THEN <<>>
  ELSE (IF payload[Head(keys)] = Undefined THEN <<>>
        ELSE <<Member(Head(keys), payload[Head(keys)])>>)
       \o PayloadMembers(payload, Tail(keys))

PayloadText(payload) == <<LB>> \o PayloadMembers(payload, RequiredFields) \o <<RB>>

InitValidate ==
  /\ RunIdle
  /\ fnIn \in [html : FieldValues, css : FieldValues, js : FieldValues]
  /\ fnOut = <<>>
  /\ fnPc = "ready"

\* Lines 284-292 on the payload's text
ApplyParseAndValidate ==
  /\ fnPc = "ready"
  /\ fnOut' = PassResult(Reply(PayloadText(fnIn)))
  /\ fnPc' = "done"
  /\ UNCHANGED <<runVars, fnIn>>

SpecValidate == InitValidate /\ [][ApplyParseAndValidate]_vars

-----------------------------------------------------------------------------
(* Properties of the generation pipeline *)

SomePassFailed == \E i \in 1..Len(outcomes) : ~outcomes[i].ok

AllPassesSucceeded ==
  /\ Len(outcomes) = refinePasses + 1
  /\ \A i \in 1..Len(outcomes) : outcomes[i].ok

\* C1: when any pass of the pipeline fails, the bundle written to the clone
\* directory is the fallback scaffold for the same url, and no earlier bundle
\* is normalised or written.
C1_FailedPassWritesScaffold ==
  (pc = "done" /\ SomePassFailed) =>
    (cloneDir = writeScaffold(url) /\ normalized = <<>>)

\* C2: with AI enabled the provider is invoked once per pass in the order
\* 0, 1, ..., N, with at most one call in flight and none repeated; nothing is
\* invoked after a failed pass; a run whose passes all succeed makes N+1
\* invocations; the request of pass p >= 1 carries the serialised bundle that
\* pass p-1 returned, together with p and N.
C2_ProviderSequencing ==
  /\ inflight \in {0, 1}
  /\ Len(requests) <= refinePasses + 1
  /\ Len(outcomes) + inflight = Len(requests)
  /\ \A i \in 1..Len(requests) : requests[i].pass = i - 1
  /\ \A i \in 1..Len(requests) : (requests[i].kind = "generate") <=> (i = 1)
  /\ \A i \in 1..Len(outcomes) : ~outcomes[i].ok => Len(requests) = i
  /\ (pc = "done" /\ enableAi /\ ~SomePassFailed) => Len(requests) = refinePasses + 1
  /\ \A i \in 2..Len(requests) :
       /\ outcomes[i - 1].ok
       /\ requests[i].assetsJson = JsonStringify(outcomes[i - 1].value)
       /\ JsonParse(requests[i].assetsJson) = Returned(outcomes[i - 1].value)
       /\ requests[i].total = refinePasses
       /\ requests[i].url = url

C2_ThreeCallsWitness ==
  /\ pc = "done"
  /\ refinePasses = 2
  /\ Len(requests) = 3
  /\ AllPassesSucceeded
  /\ outcomes[1].value # outcomes[2].value

\* C3: under --no-ai, or without a credential, the provider is never invoked
\* and the bundle written is the fallback scaffold, whatever --refine says.
C3_NoAiNoProviderCall ==
  (~optAi \/ apiKey = "") =>
    /\ requests = <<>>
    /\ inflight = 0
    /\ pc = "done" => (cloneDir = writeScaffold(url) /\ normalized = <<>>)

C3_NoAiWitness ==
  /\ pc = "done"
  /\ ~optAi
  /\ apiKey = "sk"
  /\ optRefine = MaxRefine
  /\ bundlesWritten = 1

CaptureSucceeded == browser = "closed" /\ ~captureError

\* A bundle of one origin: the scaffold, or the normalised bundle some pass
\* returned; all three files present.
CompleteBundle ==
  /\ cloneDir.html # NoFile /\ cloneDir.css # NoFile /\ cloneDir.js # NoFile
  /\ \/ cloneDir = writeScaffold(url)
     \/ \E i \in 1..Len(outcomes) :
          /\ outcomes[i].ok
          /\ cloneDir = writeGeneratedClone(normalizeAssets(outcomes[i].value))

\* C4: once the capture has succeeded, the run ends normally whatever the
\* provider calls end with, no failure of a pass aborts it, and it ends having
\* written one complete bundle, once.
C4_RunEndsWithOneBundle ==
  /\ [](CaptureSucceeded => pc # "failed")
  /\ [](bundlesWritten = (IF pc = "done" THEN 1 ELSE 0))
  /\ [](pc = "done" => CompleteBundle)
  /\ (CaptureSucceeded ~> pc = "done")

C4_FailedPassWitness ==
  /\ pc = "done"
  /\ SomePassFailed
  /\ bundlesWritten = 1
  /\ CompleteBundle

\* C10: when all N+1 passes succeed, normalizeAssets runs once, on the bundle
\* of pass N; the written styles.css and script.js are the css and js of that
\* bundle, and the written index.html is its normalised markup.
C10_LastBundleWritten ==
  (pc = "done" /\ enableAi /\ AllPassesSucceeded) =>
    LET last == outcomes[Len(outcomes)].value
    IN /\ normalized = <<last>>
       /\ cloneDir.css = Prop(last, "css").val
       /\ cloneDir.js = Prop(last, "js").val
       /\ cloneDir.html = Prop(normalizeAssets(last), "html").val
       /\ bundlesWritten = 1

C10_ThreePassWitness ==
  /\ pc = "done"
  /\ refinePasses = 2
  /\ AllPassesSucceeded
  /\ Prop(outcomes[1].value, "css") # Prop(outcomes[3].value, "css")
  /\ Prop(outcomes[2].value, "js") # Prop(outcomes[3].value, "js")
  /\ cloneDir.html # Prop(outcomes[3].value, "html").val
  /\ cloneDir.css = Prop(outcomes[3].value, "css").val

-----------------------------------------------------------------------------
(* Properties of normalizeAssets *)

HtmlOf(a) == Prop(a, "html").val

\* name occurs in html, in any letter case
Occurs(html, name) == \E i \in 1..Len(html) : LowerCase(html[i]) = name

\* name occurs in html, in any letter case, as a word of its own: no word
\* character stands directly before or after it
OccursAsWord(html, name) ==
  \E i \in 1..Len(html) :
    /\ html[i] \in {name, IF name = StylesCss THEN "STYLES.CSS" ELSE "SCRIPT.JS"}
    /\ i > 1 => html[i - 1] \notin {"w", StylesCss, ScriptJs, "STYLES.CSS", "SCRIPT.JS"}
    /\ i < Len(html) =>
         html[i + 1] \notin {"w", StylesCss, ScriptJs, "STYLES.CSS", "SCRIPT.JS"}

\* C5: normalizeAssets is idempotent: applied to its own result it returns
\* that result, equal in html, css and js.
C5_NormalizeIdempotent ==
  fnPc = "twice" =>
    /\ fnOut[2] = fnOut[1]
    /\ Prop(fnOut[2], "html") = Prop(fnOut[1], "html")
    /\ Prop(fnOut[2], "css") = Prop(fnOut[1], "css")
    /\ Prop(fnOut[2], "js") = Prop(fnOut[1], "js")

C5_InjectedTwiceWitness ==
  /\ fnPc = "twice"
  /\ Len(HtmlOf(fnOut[1])) = Len(HtmlOf(fnIn)) + 8
  /\ Occurs(HtmlOf(fnIn), HeadClose)
  /\ fnOut[2] = fnOut[1]

\* C6 as stated: a markup that contains both file names, in any letter case
\* and anywhere in the text, is returned unchanged.
C6_UnchangedWhenNamesOccur ==
  (fnPc # "ready" /\ Occurs(HtmlOf(fnIn), StylesCss) /\ Occurs(HtmlOf(fnIn), ScriptJs)) =>
    HtmlOf(fnOut[1]) = HtmlOf(fnIn)

\* C6 as amended: a markup that contains both file names, in any letter
\* case, each as a word of its own, is returned unchanged.
C6_UnchangedWhenNamesOccurAsWords ==
  (fnPc # "ready" /\ OccursAsWord(HtmlOf(fnIn), StylesCss)
                  /\ OccursAsWord(HtmlOf(fnIn), ScriptJs)) =>
    HtmlOf(fnOut[1]) = HtmlOf(fnIn)

C6_UpperCaseNamesWitness ==
  /\ fnPc = "once"
  /\ HtmlOf(fnIn) = <<"STYLES.CSS", " ", "SCRIPT.JS">>
  /\ HtmlOf(fnOut[1]) = HtmlOf(fnIn)

\* html with the pieces of inserted put in before position at
InsertBefore(html, at, inserted) ==
  SubSeq(html, 1, at - 1) \o inserted \o SubSeq(html, at, Len(html))

FirstOccurrence(html, tag) == SetMin({i \in 1..Len(html) : LowerCase(html[i]) = tag})

\* The markup C7 describes: the link element and a line break put in before
\* the first closing head tag (or in front of the document), then the script
\* element and a line break put in before the first closing body tag (or the
\* script element added after a line break), the rest left as it was.
WithLinkInserted(html) ==
  IF OccursAsWord(html, StylesCss) THEN html
  ELSE IF Occurs(html, HeadClose)
  THEN InsertBefore(html, FirstOccurrence(html, HeadClose),
                    <<"<link rel=\"stylesheet\" href=\"", StylesCss, "\" />", "\n">>)
  ELSE <<"<link rel=\"stylesheet\" href=\"", StylesCss, "\" />", "\n">> \o html

WithScriptInserted(html) ==
  IF OccursAsWord(html, ScriptJs) THEN html
  ELSE IF Occurs(html, BodyClose)
  THEN InsertBefore(html, FirstOccurrence(html, BodyClose),
                    <<"<script src=\"", ScriptJs, "\"></script>", "\n">>)
  ELSE html \o <<"\n", "<script src=\"", ScriptJs, "\"></script>">>

\* C7: the markup normalizeAssets returns contains both file names; a missing
\* link is inserted before the first closing head tag, or put in front; a
\* missing script element is inserted before the first closing body tag, or
\* added at the end; the rest of the markup is kept.
C7_BothInsertedRestKept ==
  fnPc # "ready" =>
    /\ OccursAsWord(HtmlOf(fnOut[1]), StylesCss)
    /\ OccursAsWord(HtmlOf(fnOut[1]), ScriptJs)
    /\ HtmlOf(fnOut[1]) = WithScriptInserted(WithLinkInserted(HtmlOf(fnIn)))

-----------------------------------------------------------------------------
(* Properties of extractJson and of the validation *)

BracesAt(text, c) == {i \in 1..Len(text) : text[i] = Tok(c)}

\* C8: extractJson fails when the text has no "{", has no "}", or its last
\* "}" is at or before its first "{"; otherwise it returns the text from the
\* first "{" to the last "}", both included; a text made of a prefix, an
\* object and a suffix, with no brace in prefix or suffix, yields the object.
C8_ExtractJsonSpan ==
  fnPc = "done" =>
    LET opens == BracesAt(fnIn, "{")
        closes == BracesAt(fnIn, "}")
        fails == opens = {} \/ closes = {} \/ SetMax(closes) <= SetMin(opens)
    IN /\ fails <=> ~fnOut.ok
       /\ fails => fnOut = Thrown(NoJsonObject)
       /\ ~fails =>
            /\ fnOut.value = SubSeq(fnIn, SetMin(opens), SetMax(closes))
            /\ Head(fnOut.value) = LB
            /\ fnOut.value[Len(fnOut.value)] = RB
       /\ \A i, j \in 1..Len(fnIn) :
            (/\ i < j /\ fnIn[i] = LB /\ fnIn[j] = RB
             /\ \A k \in 1..Len(fnIn) : (k < i \/ k > j) => fnIn[k] = Prose)
            => fnOut = Returned(SubSeq(fnIn, i, j))

C8_ProseAroundWitness ==
  /\ fnPc = "done"
  /\ fnIn = <<Prose, LB, Prose, RB, Prose>>
  /\ fnOut = Returned(<<LB, Prose, RB>>)

\* C9: a parsed payload is accepted exactly when html, css and js are all
\* present and are strings, the empty string included; any other payload is
\* rejected with the invalid-shape error, and the pass fails.
C9_AcceptedIffThreeStrings ==
  fnPc = "done" =>
    LET allText == \A f \in {"html", "css", "js"} : fnIn[f].ty = "string"
    IN /\ fnOut.ok <=> allText
       /\ ~allText => fnOut = Thrown(InvalidShape)
       /\ allText => \A f \in {"html", "css", "js"} : Prop(fnOut.value, f) = fnIn[f]

C9_EmptyStringsWitness ==
  /\ fnPc = "done"
  /\ fnIn = [html |-> JStr(<<>>), css |-> JStr(<<>>), js |-> JStr(<<>>)]
  /\ fnOut.ok

-----------------------------------------------------------------------------
(* Properties of the capture *)

RunEnded == pc \in {"done", "failed"}

\* C11: once the browser has been launched it is closed before the run ends,
\* on every path: when the wait event is rejected, when the navigation or the
\* screenshot fails, and when the run ends normally.
C11_BrowserClosedAtEnd == RunEnded => browser # "open"

====
